---- MODULE Spec2Model ----
(***************************************************************************)
(* kq: the job-construction and enqueue-specification protocol of          *)
(* kq/queue.py (Queue, EnqueueSpec) with the predicates of kq/utils.py.    *)
(*                                                                         *)
(* Python values are records [t |-> <type name>, v |-> <integer>]: v is    *)
(* the number of an int or float, the length of a bytes, tuple, list or    *)
(* dict, and an identity for a str (0: the empty string), a function or    *)
(* any other object.                                                       *)
(***************************************************************************)
EXTENDS Integers, Sequences, FiniteSets, TLC

VARIABLES queue, alive, specs, producer, returned, nUuid, last

vars == <<queue, alive, specs, producer, returned, nUuid, last>>

-----------------------------------------------------------------------------
(* Bounds of the model. *)

\* Enqueue calls in one behaviour of Spec.
MaxCalls == 2
\* EnqueueSpec objects obtained from using() that the caller holds at once.
MaxSpecs == 1
\* Arguments of one using(...) call, and fields of one Job(...) given to enqueue
\* that differ from Job(func=fn).
MaxGiven == 1

-----------------------------------------------------------------------------
(* Python values. *)

None == [t |-> "None", v |-> 0]
PyInt(n) == [t |-> "int", v |-> n]
Str(n) == [t |-> "str", v |-> n]
Bytes(n) == [t |-> "bytes", v |-> n]
Tuple(n) == [t |-> "tuple", v |-> n]
Dict(n) == [t |-> "dict", v |-> n]
Func(n) == [t |-> "function", v |-> n]
Object(n) == [t |-> "object", v |-> n]

\* bool(obj): None, zero and the empty containers are false.
Truthy(obj) ==
    CASE obj.t = "None" -> FALSE
      [] obj.t \in {"int", "float", "str", "bytes", "tuple", "list", "dict"} -> obj.v # 0
      [] OTHER -> TRUE

\* a or b
PyOr(a, b) == IF Truthy(a) THEN a ELSE b

callable(obj) == obj.t = "function"
is_none_or_int(obj) == obj.t = "None" \/ obj.t = "int"
is_none_or_bytes(obj) == obj.t = "None" \/ obj.t = "bytes"
is_str(obj) == obj.t = "str"
is_number(obj) == obj.t \in {"int", "float"}
is_dict(obj) == obj.t = "dict"
is_iter(obj) == obj.t \in {"list", "tuple"}

-----------------------------------------------------------------------------
(* kq.job.Job: a namedtuple whose fields all default to None. *)

JobFields == {"id", "timestamp", "topic", "func", "args", "kwargs", "timeout", "key", "partition"}

Job(id, timestamp, topic, func, args, kwargs, timeout, key, partition) ==
    [id |-> id, timestamp |-> timestamp, topic |-> topic, func |-> func,
     args |-> args, kwargs |-> kwargs, timeout |-> timeout, key |-> key,
     partition |-> partition]

NoJob == Job(None, None, None, None, None, None, None, None, None)

-----------------------------------------------------------------------------
(* External collaborators. *)

\* An id source that gives every call the same id.
Uuid4HexSame(n) == Str(100)

\* uuid.uuid4().hex: the n-th draw of the process; draws do not repeat.
Uuid4Hex(n) == Str(100 + n)

\* The serializer (dill.dumps unless the caller gives one): an encoding that
\* can be decoded again, and is not the identity.
serializer(obj) == [pickled |-> obj]

\* The arguments of KafkaProducer.send.
Message(topic, value, key, partition, timestamp_ms) ==
    [topic |-> topic, value |-> value, key |-> key, partition |-> partition,
     timestamp_ms |-> timestamp_ms]

NoMessage == Message(None, None, None, None, None)

-----------------------------------------------------------------------------
(* EnqueueSpec. given and origin are history fields: the arguments of the  *)
(* using(...) call that built the spec, and who built it.                  *)

NoGiven == [timeout |-> None, key |-> None, partition |-> None]

EnqueueSpecValid(timeout, key, partition) ==
    /\ is_number(timeout)
    /\ is_none_or_bytes(key)
    /\ is_none_or_int(partition)

EnqueueSpec(topic, prod, ser, logger, timeout, key, partition, origin, given) ==
    [_topic |-> topic, _producer |-> prod, _serializer |-> ser, _logger |-> logger,
     _timeout |-> timeout, _key |-> key, _part |-> partition,
     origin |-> origin, given |-> given]

-----------------------------------------------------------------------------
(* Queue. *)

QueueValid(topic, timeout) ==
    /\ is_str(topic)
    /\ is_number(timeout)
    /\ timeout.v >= 0

QueueInit(topic, timeout) ==
    [_topic |-> topic, _producer |-> Object(1), _serializer |-> Func(2),
     _timeout |-> timeout, _logger |-> Object(3),
     _default_enqueue_spec |->
         EnqueueSpec(topic, Object(1), Func(2), Object(3), timeout, None, None,
                     "Queue", NoGiven)]

\* The timeout Queue.using binds into the spec it returns.
UsingTimeout(q, timeout) == PyOr(timeout, q._timeout)

UsingSpec(q, timeout, key, partition) ==
    EnqueueSpec(q._topic, q._producer, q._serializer, q._logger,
                UsingTimeout(q, timeout), key, partition, "using",
                [timeout |-> timeout, key |-> key, partition |-> partition])

-----------------------------------------------------------------------------
(* EnqueueSpec.enqueue. An input is the first argument obj (a Job when     *)
(* isJob, with its fields in job) and the call's *args and **kwargs.       *)

Input(isJob, job, obj, args, kwargs) ==
    [isJob |-> isJob, job |-> job, obj |-> obj, args |-> args, kwargs |-> kwargs]

\* x if own is None else own, had the code written "own or x"
ResolveOr(own, bound) == PyOr(own, bound)

\* x if own is None else own
Resolve(own, bound) == IF own.t = "None" THEN bound ELSE own

\* The number of uuid4 draws the call makes.
UuidDraws(input) ==
    IF input.isJob
    THEN (IF input.job.id.t = "None" THEN 1 ELSE 0)
    ELSE (IF callable(input.obj) THEN 1 ELSE 0)

\* job_id, func, args, kwargs, timeout, key and partition as the two branches
\* compute them, before the asserts of the Job branch.
Fields(self, input, n) ==
    IF input.isJob
    THEN [id |-> IF input.job.id.t = "None" THEN Uuid4Hex(n) ELSE input.job.id,
          func |-> input.job.func,
          args |-> Resolve(input.job.args, Tuple(0)),
          kwargs |-> Resolve(input.job.kwargs, Dict(0)),
          timeout |-> Resolve(input.job.timeout, self._timeout),
          key |-> Resolve(input.job.key, self._key),
          partition |-> Resolve(input.job.partition, self._part)]
    ELSE [id |-> Uuid4Hex(n), func |-> input.obj, args |-> input.args,
          kwargs |-> input.kwargs, timeout |-> self._timeout, key |-> self._key,
          partition |-> self._part]

\* The asserts of the Job branch without the one on Job.key.
JobAssertsNoKey(f) ==
    /\ is_str(f.id)
    /\ callable(f.func)
    /\ is_iter(f.args)
    /\ is_dict(f.kwargs)
    /\ is_number(f.timeout)
    /\ is_none_or_int(f.partition)

\* The asserts of the Job branch, on the computed fields.
JobAsserts(f) ==
    /\ is_str(f.id)
    /\ callable(f.func)
    /\ is_iter(f.args)
    /\ is_dict(f.kwargs)
    /\ is_number(f.timeout)
    /\ is_none_or_bytes(f.key)
    /\ is_none_or_int(f.partition)

Asserts(input, f) == IF input.isJob THEN JobAsserts(f) ELSE callable(input.obj)

\* The Job built, had the code kept the topic and timestamp of a Job given.
BuildJobKeep(self, input, f, timestamp) ==
    Job(f.id,
        IF input.isJob THEN Resolve(input.job.timestamp, timestamp) ELSE timestamp,
        IF input.isJob THEN Resolve(input.job.topic, self._topic) ELSE self._topic,
        f.func, f.args, f.kwargs, f.timeout, f.key, f.partition)

\* job = Job(id=job_id, timestamp=timestamp, topic=self._topic, ...)
BuildJob(self, input, f, timestamp) ==
    Job(f.id, timestamp, self._topic, f.func, f.args, f.kwargs, f.timeout, f.key,
        f.partition)

\* key=self._serializer(key) if key else None
SendKeyed(key) == Truthy(key)

\* The send, had the code passed the spec's partition.
SendMessageSpecPartition(self, j) ==
    Message(self._topic, serializer(j),
            IF SendKeyed(j.key) THEN serializer(j.key) ELSE None,
            self._part, j.timestamp)

SendMessage(self, j) ==
    Message(self._topic, serializer(j),
            IF SendKeyed(j.key) THEN serializer(j.key) ELSE None,
            j.partition, j.timestamp)

\* What the call does after the Job is built, in order.
SendEvents(j) ==
    <<"logger.info", "serializer(job)">>
    \o (IF SendKeyed(j.key) THEN <<"serializer(key)">> ELSE <<>>)
    \o <<"producer.send">>

\* The call: how it ended, the Job returned (NoJob when it raised), what it
\* invoked, the message given to send and whether send took it.
enqueue(self, input, clock, n, sendOk) ==
    LET f == Fields(self, input, n)
        j == BuildJob(self, input, f, PyInt(clock))
    IN  IF ~Asserts(input, f)
        THEN [outcome |-> "AssertionError", job |-> NoJob, events |-> <<>>,
              message |-> NoMessage, accepted |-> FALSE]
        ELSE [outcome |-> IF sendOk THEN "returned" ELSE "send raised",
              job |-> IF sendOk THEN j ELSE NoJob,
              events |-> SendEvents(j),
              message |-> SendMessage(self, j),
              accepted |-> sendOk]

-----------------------------------------------------------------------------
(* The values a caller passes. *)

QueueTimeouts == {PyInt(-1), PyInt(0), PyInt(10), Str(5)}
Topic == Str(1)
ClockValues == {1001, 1002}
SeqClockValues == {1001}

GivenCount(f, names) == Cardinality({k \in names : f[k].t # "None"})

UsingArgs ==
    {a \in [timeout : {None, PyInt(0), PyInt(30), PyInt(-1), Str(5)},
            key : {None, Bytes(1), Str(5)},
            partition : {None, PyInt(1), Str(5)}] :
        GivenCount(a, {"timeout", "key", "partition"}) <= MaxGiven}

\* The using() calls of a run of calls: a timeout, a key with a partition, and
\* a timeout that is no number.
SeqUsingArgs ==
    {[timeout |-> PyInt(30), key |-> None, partition |-> None],
     [timeout |-> None, key |-> Bytes(1), partition |-> PyInt(1)],
     [timeout |-> Str(5), key |-> None, partition |-> None]}

\* The Jobs that differ from Job(func=fn) in at most MaxGiven fields.
JobValues ==
    {j \in [id : {None, Str(3), PyInt(9)},
            timestamp : {None, PyInt(7)},
            topic : {None, Str(2)},
            func : {Func(1), Object(4)},
            args : {None, Tuple(1), Str(5)},
            kwargs : {None, Dict(1), Str(5)},
            timeout : {None, PyInt(0), PyInt(5), PyInt(-1), Str(5)},
            key : {None, Bytes(0), Bytes(1), Str(5)},
            partition : {None, PyInt(2), Str(5)}] :
        GivenCount(j, JobFields \ {"func"}) + (IF j.func = Func(1) THEN 0 ELSE 1)
            <= MaxGiven}

\* enqueue(obj, *args, **kwargs) with obj no Job
CallInputs ==
    {Input(FALSE, NoJob, obj, args, kwargs) :
        obj \in {Func(1), Object(4)}, args \in {Tuple(0), Tuple(1)},
        kwargs \in {Dict(0), Dict(1)}}

\* Every input of one call.
Inputs == CallInputs \cup {Input(TRUE, j, None, Tuple(0), Dict(0)) : j \in JobValues}

\* The inputs of a run of calls: a function call, a Job with or without an id
\* or a partition of its own, the Job the call before returned, a non-callable.
SeqInputs ==
    {Input(FALSE, NoJob, Func(1), Tuple(1), Dict(1)),
     Input(FALSE, NoJob, Object(4), Tuple(0), Dict(0))}
    \cup {Input(TRUE, [NoJob EXCEPT !.func = Func(1), !.id = i, !.partition = p],
                None, Tuple(0), Dict(0)) :
            i \in {None, Str(3)}, p \in {None, PyInt(2)}}
    \cup (IF last.outcome = "returned"
          THEN {Input(TRUE, last.job, None, Tuple(0), Dict(0))}
          ELSE {})

-----------------------------------------------------------------------------
(* State. *)

NoCall ==
    [op |-> "none", self |-> QueueInit(Topic, PyInt(0))._default_enqueue_spec,
     input |-> Input(FALSE, NoJob, None, None, None), clock |-> 0,
     closed |-> FALSE, outcome |-> "none", job |-> NoJob, events |-> <<>>,
     message |-> NoMessage]

Init ==
    /\ \E timeout \in QueueTimeouts :
           /\ QueueValid(Topic, timeout)
           /\ queue = QueueInit(Topic, timeout)
    /\ alive = TRUE
    /\ specs = {}
    /\ producer = [closed |-> FALSE, closeCalls |-> 0, sent |-> <<>>]
    /\ returned = <<>>
    /\ nUuid = 0
    /\ last = NoCall

\* using(), had it rebound the Queue's own default spec and returned that.
UsingInPlace(timeout, key, partition) ==
    /\ alive
    /\ Cardinality(specs) < MaxSpecs
    /\ IF EnqueueSpecValid(UsingTimeout(queue, timeout), key, partition)
       THEN /\ queue' = [queue EXCEPT
                            !._default_enqueue_spec._timeout = UsingTimeout(queue, timeout),
                            !._default_enqueue_spec._key = key,
                            !._default_enqueue_spec._part = partition]
            /\ specs' = specs \cup {UsingSpec(queue, timeout, key, partition)}
       ELSE UNCHANGED <<queue, specs>>
    /\ UNCHANGED <<alive, producer, returned, nUuid, last>>

\* Queue.using(timeout, key, partition): the caller keeps the spec returned.
Using(timeout, key, partition) ==
    /\ alive
    /\ Cardinality(specs) < MaxSpecs
    /\ specs' = IF EnqueueSpecValid(UsingTimeout(queue, timeout), key, partition)
                THEN specs \cup {UsingSpec(queue, timeout, key, partition)}
                ELSE specs
    /\ UNCHANGED <<queue, alive, producer, returned, nUuid, last>>

\* self.enqueue(obj, *args, **kwargs) on an EnqueueSpec, with the clock's
\* reading and whether the producer's send returns. last holds the call;
\* returned holds, per Job returned, its id, the id the input carried and the
\* origin of the spec; producer.sent holds the ids of the Jobs send took.
Enqueue(self, input, clock, sendOk) ==
    LET r == enqueue(self, input, clock, nUuid, sendOk)
    IN  /\ last' = [op |-> "enqueue", self |-> self, input |-> input,
                    clock |-> clock, closed |-> producer.closed,
                    outcome |-> r.outcome, job |-> r.job, events |-> r.events,
                    message |-> r.message]
        /\ nUuid' = nUuid + UuidDraws(input)
        /\ producer' = IF r.accepted
                       THEN [producer EXCEPT !.sent = Append(@, r.message.value.pickled.id)]
                       ELSE producer
        /\ returned' = IF r.outcome = "returned"
                       THEN Append(returned, [id |-> r.job.id, given_id |-> input.job.id,
                                              origin |-> self.origin])
                       ELSE returned
        /\ UNCHANGED <<queue, alive, specs>>

\* The specs the caller can reach: Queue.enqueue goes to the default spec.
Reachable == specs \cup (IF alive THEN {queue._default_enqueue_spec} ELSE {})

\* Queue.__del__, once the caller drops the Queue; close may raise.
Del(closeOk) ==
    /\ alive
    /\ alive' = FALSE
    /\ producer' = [producer EXCEPT !.closed = closeOk, !.closeCalls = @ + 1]
    /\ UNCHANGED <<queue, specs, returned, nUuid, last>>

CallUsing == \E a \in UsingArgs : Using(a.timeout, a.key, a.partition)

SeqUsing == \E a \in SeqUsingArgs : Using(a.timeout, a.key, a.partition)

CallDel == \E closeOk \in BOOLEAN : Del(closeOk)

\* One call, with any input.
CallOnce ==
    /\ last.op = "none"
    /\ \E self \in Reachable, input \in Inputs, clock \in ClockValues, sendOk \in BOOLEAN :
           Enqueue(self, input, clock, sendOk)

\* A run of calls.
CallSeq ==
    /\ nUuid < MaxCalls
    /\ Len(returned) < MaxCalls
    /\ \E self \in Reachable, input \in SeqInputs, clock \in SeqClockValues, sendOk \in BOOLEAN :
           Enqueue(self, input, clock, sendOk)

NextCall == CallUsing \/ CallDel \/ CallOnce

Next == SeqUsing \/ CallDel \/ CallSeq

SpecCall == Init /\ [][NextCall]_vars

Spec == Init /\ [][Next]_vars

-----------------------------------------------------------------------------
(* Properties. *)

Has(seq, e) == \E i \in 1..Len(seq) : seq[i] = e

Count(seq, e) == Cardinality({i \in 1..Len(seq) : seq[i] = e})

Called == last.op = "enqueue"
Passed == Called /\ last.outcome # "AssertionError"
Sent == Called /\ Has(last.events, "producer.send")
\* The Job the last call serialized and handed to send.
SentJob == last.message.value.pickled

\* C1: when enqueue is given a Job, each of timeout, key and partition of the
\* normalized Job is the input Job's value if that is not None (a timeout of 0
\* is set), else the value bound into the EnqueueSpec.
C1_Precedence ==
    (Passed /\ last.input.isJob) =>
        /\ SentJob.timeout = (IF last.input.job.timeout = None
                              THEN last.self._timeout ELSE last.input.job.timeout)
        /\ SentJob.key = (IF last.input.job.key = None
                          THEN last.self._key ELSE last.input.job.key)
        /\ SentJob.partition = (IF last.input.job.partition = None
                                THEN last.self._part ELSE last.input.job.partition)

\* Queue(timeout=10).using(timeout=30).enqueue(Job(func=fn, timeout=5)) gave 5.
C1_Witness ==
    /\ Called /\ last.outcome = "returned" /\ last.input.isJob
    /\ queue._timeout = PyInt(10)
    /\ last.self.origin = "using" /\ last.self._timeout = PyInt(30)
    /\ last.input.job.timeout = PyInt(5)
    /\ last.job.timeout = PyInt(5)
    /\ last.job.key = last.self._key /\ last.job.partition = last.self._part

\* C2: using(timeout=T) binds T whenever a timeout is given, 0 included, and
\* a function call enqueued through that spec gets timeout T.
C2_UsingBindsGivenTimeout ==
    /\ \A s \in specs : s.given.timeout # None => s._timeout = s.given.timeout
    /\ (Called /\ last.outcome = "returned" /\ ~last.input.isJob
        /\ last.self.origin = "using" /\ last.self.given.timeout # None)
           => last.job.timeout = last.self.given.timeout

\* The input fails one of the shape checks.
Malformed(input) ==
    IF input.isJob
    THEN \/ ~callable(input.job.func)
         \/ input.job.id # None /\ input.job.id.t # "str"
         \/ input.job.args # None /\ input.job.args.t \notin {"list", "tuple"}
         \/ input.job.kwargs # None /\ input.job.kwargs.t # "dict"
         \/ input.job.timeout # None /\ input.job.timeout.t \notin {"int", "float"}
         \/ input.job.key # None /\ input.job.key.t # "bytes"
         \/ input.job.partition # None /\ input.job.partition.t # "int"
    ELSE ~callable(input.obj)

\* C3: a call whose input fails a shape check ends in a validation error
\* without having invoked the logger, the serializer or the producer's send.
C3_NoTransportOnInvalid ==
    (Called /\ Malformed(last.input)) =>
        /\ last.outcome = "AssertionError"
        /\ last.events = <<>>
        /\ last.message = NoMessage
        /\ producer.sent = <<>>
        /\ returned = <<>>

C3_Witness ==
    /\ Called /\ last.input.isJob
    /\ last.input.job.key = Str(5)
    /\ last.outcome = "AssertionError"

\* C4: a returned Job has the spec's topic and the clock reading of the call
\* as timestamp, whatever the input Job carried, and its id, timestamp, topic,
\* args and kwargs are not None (args and kwargs are empty when none given).
C4_Normalized ==
    (Called /\ last.outcome = "returned") =>
        /\ last.job.topic = last.self._topic
        /\ last.job.timestamp = PyInt(last.clock)
        /\ \A k \in {"id", "timestamp", "topic", "args", "kwargs"} : last.job[k] # None
        /\ last.job.args.t \in {"list", "tuple"}
        /\ last.job.kwargs.t = "dict"
        /\ (last.input.isJob /\ last.input.job.args = None) => last.job.args = Tuple(0)
        /\ (last.input.isJob /\ last.input.job.kwargs = None) => last.job.kwargs = Dict(0)
        /\ ~last.input.isJob =>
               last.job.args = last.input.args /\ last.job.kwargs = last.input.kwargs

C4_Witness ==
    /\ Called /\ last.outcome = "returned" /\ last.input.isJob
    /\ last.input.job.topic = Str(2)
    /\ last.job.topic = Topic
    /\ last.job.args = Tuple(0)

\* C5: a send carries serializer(key) as its key exactly when the normalized
\* Job's key is not None, the empty byte string included.
C5_WireKey ==
    Sent =>
        /\ SentJob.key # None => last.message.key = serializer(SentJob.key)
        /\ SentJob.key = None => last.message.key = None

\* C6 as claimed: no two returned Jobs have the same id.
C6_AllIdsDistinct ==
    \A i, k \in 1..Len(returned) :
        i # k => returned[i].id # returned[k].id

\* C6: a Job returned for an input that carries no id has a generated id that
\* differs from the id of every Job returned before it; a Job returned for an
\* input that carries an id has that id.
C6_GeneratedIdsFresh ==
    \A i \in 1..Len(returned) :
        IF returned[i].given_id = None
        THEN \A k \in 1..(i - 1) : returned[k].id # returned[i].id
        ELSE returned[i].id = returned[i].given_id

C6_Witness ==
    /\ Len(returned) >= 2
    /\ returned[1].given_id = None /\ returned[2].given_id = None
    /\ returned[1].id # returned[2].id

\* C7: using() and enqueue leave the Queue's fields and its default spec as
\* they were, every spec handed out stays as it was made, and a function call
\* enqueued on the Queue gets the Queue's timeout, key None, partition None.
C7_UsingFrame ==
    [][/\ queue' = queue
       /\ specs \subseteq specs'
       /\ (last'.op = "enqueue" /\ last'.self.origin = "Queue"
           /\ ~last'.input.isJob /\ last'.outcome = "returned")
              => /\ last'.job.timeout = queue._timeout
                 /\ last'.job.key = None
                 /\ last'.job.partition = None]_vars

\* Queue.enqueue(fn, 1, x=2) after a using(timeout=30) spec was enqueued to.
C7_Witness ==
    /\ \E s \in specs : s._timeout # queue._timeout
    /\ Len(returned) >= 2
    /\ returned[1].origin = "using"
    /\ Called /\ last.self.origin = "Queue" /\ ~last.input.isJob
    /\ last.outcome = "returned"
    /\ last.job.timeout = queue._timeout

\* The send that goes with a Job: its topic, value, partition and timestamp.
Carries(m, j) ==
    /\ m.topic = j.topic
    /\ m.value = serializer(j)
    /\ m.partition = j.partition
    /\ m.timestamp_ms = j.timestamp

C9_NoSendAfterClose == Sent => ~last.closed

\* C10: every Job handed to send has a timeout >= 0.
C10_NonNegativeTimeout == Sent => SentJob.timeout.v >= 0

====
